---- MODULE Spec2Model ----
(***************************************************************************)
(* Booking service: members reserve inventory items (POST /book) and       *)
(* cancel reservations by reference (POST /cancel).  Every request runs in *)
(* its own SQLAlchemy session against PostgreSQL at the engine's default   *)
(* isolation level (READ COMMITTED, no SELECT ... FOR UPDATE): each query  *)
(* of a request sees the rows committed at the time it is issued, the ORM  *)
(* keeps the attribute values it loaded, and commit() writes the values    *)
(* computed from them (UPDATE ... SET remaining_count = <value>).          *)
(***************************************************************************)
EXTENDS Integers, Sequences, FiniteSets, TLC

\* ---------------------------------------------------------------- bounds
NMembers == 2
NItems == 2
NProcs == 2
MaxBookings == 3
MaxStock == 2
MaxDay == 2
MaxBatch == 2
MaxRows == 2

\* ------------------------------------------------------ program constants
MaxActiveBookings == 2
HTTP_200_OK == 200
HTTP_201_CREATED == 201
HTTP_400_BAD_REQUEST == 400
HTTP_404_NOT_FOUND == 404

Procs == 1..NProcs
MemberIds == 1..NMembers
ItemIds == 1..NItems
\* ids a request may carry: the existing ones and one that matches no row
RequestMemberIds == 1..(NMembers + 1)
RequestItemIds == 1..(NItems + 1)
\* booking references: the tokens uuid4 may return, and "FAKE-REF" (0)
Uuids == 1..MaxBookings
FakeRef == 0
Days == 0..MaxDay

VARIABLES
    members,      \* table members:   id -> [booking_count]
    inventory,    \* table inventory: id -> [remaining_count, expiration_date]
    bookings,     \* table bookings:  id -> [booking_reference, member_id, inventory_id, is_active]
    today,        \* datetime.utcnow().date()
    pc,           \* position of each request handler
    req,          \* the request each handler is serving
    loc,          \* the ORM objects loaded in each handler's session
    resp,         \* the response of each handler
    stock0,       \* history: the stock every item was created with
    last_booked,  \* history: the booking made by the call that completed last
    base,         \* history: the store when the running batch of calls began
    batch,        \* history: the calls begun since then, with their responses
    upload        \* the CSV upload being served: its file and its response

vars == <<members, inventory, bookings, today, pc, req, loc, resp,
          stock0, last_booked, base, batch, upload>>

\* ------------------------------------------------------------- the tables
\* Booking(member_id=..., inventory_id=...): is_active defaults to True,
\* booking_reference to generate_uuid()
Booking(member_id, inventory_id, ref) ==
    [booking_reference |-> ref, member_id |-> member_id,
     inventory_id |-> inventory_id, is_active |-> TRUE]

\* default=generate_uuid() in place of default=generate_uuid: the token is
\* drawn once, when the class is defined, and every row receives it
generate_uuid_Once(bk) == CHOOSE u \in Uuids : \A v \in Uuids : v <= u

\* a row deleted from bookings keeps its place in the sequence (ids are not
\* given again), inactive and under a reference no request carries, so that
\* no query finds it
Gone == -1
Deleted(b) == [b EXCEPT !.booking_reference = Gone, !.is_active = FALSE]

\* generate_uuid(): str(uuid.uuid4()), a token no booking carries yet; the
\* tokens come in an order unrelated to the ids of the rows
generate_uuid(bk) ==
    LET fresh == Uuids \ {bk[k].booking_reference : k \in 1..Len(bk)}
    IN  CHOOSE u \in fresh : \A v \in fresh : v <= u

\* the count without its is_active filter
ActiveBookingsCount_AnyStatus(bk, m) ==
    Cardinality({k \in 1..Len(bk) : bk[k].member_id = m})

\* db.query(Booking).filter(member_id == m, is_active == True).count()
ActiveBookingsCount(bk, m) ==
    Cardinality({k \in 1..Len(bk) : bk[k].member_id = m /\ bk[k].is_active})

\* count(Booking where item == i and is_active)
ActiveBookingsOnItem(bk, i) ==
    Cardinality({k \in 1..Len(bk) : bk[k].inventory_id = i /\ bk[k].is_active})

\* a query that lost its filter: the first booking of the table
BookingByReference_Unfiltered(bk, ref) == IF Len(bk) = 0 THEN 0 ELSE 1

\* db.query(Booking).filter(booking_reference == ref).first(); 0 is None
BookingByReference(bk, ref) ==
    LET hits == {k \in 1..Len(bk) : bk[k].booking_reference = ref}
    IN  IF hits = {} THEN 0 ELSE CHOOSE k \in hits : \A j \in hits : k <= j

\* ------------------------------------------------------ the rules checked
\* the quota compared with > in place of >=
QuotaReached_OffByOne(n) == n > MaxActiveBookings

\* if active_bookings_count >= 2
QuotaReached(n) == n >= MaxActiveBookings

\* the stock compared with 0 in place of 1
NoRemaining_OffByOne(remaining_count) == remaining_count < 0

\* if inventory_item.remaining_count < 1
NoRemaining(remaining_count) == remaining_count < 1

\* the expiry compared with <= in place of <
IsExpired_OffByOne(expiration_date, day) == expiration_date <= day

\* if inventory_item.expiration_date < datetime.utcnow().date()
IsExpired(expiration_date, day) == expiration_date < day

\* the check without its is_active half
NotCancellable_AnyBooking(bk, k) == k = 0

\* if not booking or not booking.is_active
NotCancellable(bk, k) == k = 0 \/ ~bk[k].is_active

\* inventory_item.remaining_count -= 1
TakenCount(remaining_count) == remaining_count - 1

\* a booking that leaves the member's counter alone
IncrementedCount_Forgotten(booking_count) == booking_count

\* member.booking_count += 1
IncrementedCount(booking_count) == booking_count + 1

\* a cancellation that does not give the unit back
RestoredCount_Forgotten(remaining_count) == remaining_count

\* inventory_item.remaining_count += 1
RestoredCount(remaining_count) == remaining_count + 1

\* the decrement without its floor
AboveFloor_Unchecked(booking_count) == TRUE

\* if member and member.booking_count > 0
AboveFloor(booking_count) == booking_count > 0

\* a cancellation that leaves the member's counter alone
DecrementedCount_Forgotten(booking_count) == booking_count

\* member.booking_count -= 1
DecrementedCount(booking_count) == booking_count - 1

\* a cancellation that deletes the row: db.delete(booking)
Deactivated_Deleted(bk, k) == SubSeq(bk, 1, k - 1) \o SubSeq(bk, k + 1, Len(bk))

\* booking.is_active = False
Deactivated(bk, k) == [bk EXCEPT ![k].is_active = FALSE]

\* ------------------------------------------------------------- responses
NoResponse == [status_code |-> 0, detail |-> "", booking |-> 0]
Ok(k) == [status_code |-> HTTP_200_OK, detail |-> "", booking |-> k]
MemberNotFound ==
    [status_code |-> HTTP_404_NOT_FOUND, detail |-> "Member not found.", booking |-> 0]
ItemNotFound ==
    [status_code |-> HTTP_404_NOT_FOUND, detail |-> "Inventory item not found.", booking |-> 0]
QuotaExceeded ==
    [status_code |-> HTTP_400_BAD_REQUEST,
     detail |-> "Member has reached the maximum of 2 active bookings.", booking |-> 0]
OutOfStock ==
    [status_code |-> HTTP_400_BAD_REQUEST,
     detail |-> "No remaining count for this inventory item.", booking |-> 0]
Expired ==
    [status_code |-> HTTP_400_BAD_REQUEST,
     detail |-> "Inventory item is expired; cannot be booked.", booking |-> 0]
BookingNotFound ==
    [status_code |-> HTTP_404_NOT_FOUND,
     detail |-> "Active booking with this reference not found.", booking |-> 0]

\* an exception no handler catches (StaleDataError: an UPDATE of the flush
\* matched no row) leaves the session before its commit; the framework
\* answers 500
StaleData ==
    [status_code |-> 500, detail |-> "Internal Server Error", booking |-> 0]

NoRequest == [op |-> "none", member_id |-> 0, inventory_id |-> 0,
              booking_reference |-> 0, slot |-> 0]
\* the attributes loaded in a session, the booking it holds, and whether it
\* has assigned remaining_count and booking_count (a commit updates only the
\* attributes assigned)
NoObjects == [booking_count |-> 0, remaining_count |-> 0, expiration_date |-> 0,
              booking |-> 0, item_dirty |-> FALSE, member_dirty |-> FALSE]
NoBooking == [id |-> 0, booking_count |-> 0, remaining_count |-> 0,
              cancelled |-> FALSE]

\* ---------------------------------------------- the handlers, run alone
Snapshot == [members |-> members, inventory |-> inventory,
             bookings |-> bookings, today |-> today, ok |-> TRUE]
NoSnapshot == [members |-> <<>>, inventory |-> <<>>,
               bookings |-> <<>>, today |-> 0, ok |-> FALSE]

\* create_booking from its first query to its commit, with no other session
\* writing in between; ref is the token generate_uuid returns at the insert
create_booking(st, m, i, ref) ==
    IF m \notin DOMAIN st.members THEN [st |-> st, resp |-> MemberNotFound]
    ELSE IF i \notin DOMAIN st.inventory THEN [st |-> st, resp |-> ItemNotFound]
    ELSE IF QuotaReached(ActiveBookingsCount(st.bookings, m))
         THEN [st |-> st, resp |-> QuotaExceeded]
    ELSE IF NoRemaining(st.inventory[i].remaining_count)
         THEN [st |-> st, resp |-> OutOfStock]
    ELSE IF IsExpired(st.inventory[i].expiration_date, st.today)
         THEN [st |-> st, resp |-> Expired]
    ELSE [st |-> [st EXCEPT
                    !.bookings = Append(@, Booking(m, i, ref)),
                    !.inventory[i].remaining_count = TakenCount(@),
                    !.members[m].booking_count = IncrementedCount(@)],
          resp |-> Ok(Len(st.bookings) + 1)]

\* cancel_booking from its first query to its commit, run alone
cancel_booking(st, ref) ==
    LET k == BookingByReference(st.bookings, ref) IN
    IF NotCancellable(st.bookings, k) THEN [st |-> st, resp |-> BookingNotFound]
    ELSE LET b == st.bookings[k]
             inv1 == IF b.inventory_id \in DOMAIN st.inventory
                     THEN [st.inventory EXCEPT ![b.inventory_id].remaining_count =
                                                    RestoredCount(@)]
                     ELSE st.inventory
             mem1 == IF /\ b.member_id \in DOMAIN st.members
                        /\ AboveFloor(st.members[b.member_id].booking_count)
                     THEN [st.members EXCEPT ![b.member_id].booking_count =
                                                    DecrementedCount(@)]
                     ELSE st.members
         IN  [st |-> [st EXCEPT !.bookings = Deactivated(@, k),
                                !.inventory = inv1, !.members = mem1],
              resp |-> Ok(k)]

\* the calls of a sequence served one after another, each from the store the
\* one before left
Serve(st, c) ==
    IF c.op = "book"
    THEN create_booking(st, c.member_id, c.inventory_id,
                        generate_uuid(st.bookings)).st
    ELSE cancel_booking(st, c.booking_reference).st

RECURSIVE ServeAll(_, _)
ServeAll(st, calls) ==
    IF calls = <<>> THEN st ELSE ServeAll(Serve(st, Head(calls)), Tail(calls))

Orders(n) == {f \in [1..n -> 1..n] : \A a, b \in 1..n : f[a] = f[b] => a = b}

\* how many active bookings each member holds on each item
ActiveBag(bk) ==
    [pair \in RequestMemberIds \X RequestItemIds |->
        Cardinality({k \in 1..Len(bk) : /\ bk[k].is_active
                                         /\ bk[k].member_id = pair[1]
                                         /\ bk[k].inventory_id = pair[2]})]

\* --------------------------------------------------------------- history
Quiescent == \A q \in Procs : pc[q] \in {"idle", "done"}

Call(op, m, i, ref, r) ==
    [op |-> op, member_id |-> m, inventory_id |-> i,
     booking_reference |-> ref, resp |-> r]

\* the response of a finished handler leaves before another query is served
Delivered == \A q \in Procs : pc[q] # "done"

\* at most MaxBatch calls begin between two moments with no call in flight
Room == Quiescent \/ (base.ok /\ Len(batch) < MaxBatch)

\* a call begins: it opens a batch when no other call is running and joins
\* the running batch otherwise
SlotOfNew == IF Quiescent THEN 1 ELSE Len(batch) + 1

Record(call) ==
    IF Quiescent THEN base' = Snapshot /\ batch' = <<call>>
    ELSE base' = base /\ batch' = Append(batch, call)

\* a call ends with response r (and, for a booking made, its reference)
Close(p, r, ref) ==
    /\ base' = base
    /\ batch' = IF base.ok /\ req[p].slot > 0
                THEN [batch EXCEPT ![req[p].slot].resp = r,
                                   ![req[p].slot].booking_reference = ref]
                ELSE batch

Finish(p, r) ==
    /\ pc' = [pc EXCEPT ![p] = "done"]
    /\ resp' = [resp EXCEPT ![p] = r]
    /\ Close(p, r, req[p].booking_reference)
    /\ last_booked' = NoBooking

\* ------------------------------------------------------------ CSV uploads
\* the text of a field: a date written in one of three formats, or a text
\* that is no date; csv.DictReader gives None for the fields a row is too
\* short to hold (the date column is the last of both files)
Text(format, day) == [format |-> format, day |-> day]
None == Text("None", 0)
Formats == {"%Y-%m-%d %H:%M:%S", "%Y-%m-%dT%H:%M:%S", "%d/%m/%Y"}
RawDates == {Text(f, d) : f \in Formats, d \in {1, MaxDay}}
                \cup {Text("", 0), Text("n/a", 0), None}

\* the text of a count field: the digits of an integer, or a text that is none
Digits(n) == [digits |-> TRUE, n |-> n]
RawCounts == {Digits(-1), Digits(0), Digits(MaxActiveBookings + 1),
              [digits |-> FALSE, n |-> 0]}

Rows == [date : RawDates, count : RawCounts]
Files == UNION {[1..n -> Rows] : n \in 0..MaxRows}

\* datetime.strptime(raw, fmt), with NoDate for the ValueError it raises
NoDate == -1
strptime(raw, format) == IF raw.format = format THEN raw.day ELSE NoDate

\* parse_member_date: 'YYYY-MM-DD HH:MM:SS', then 'YYYY-MM-DDTHH:MM:SS', else None
parse_member_date(raw) ==
    IF strptime(raw, "%Y-%m-%d %H:%M:%S") # NoDate
    THEN strptime(raw, "%Y-%m-%d %H:%M:%S")
    ELSE strptime(raw, "%Y-%m-%dT%H:%M:%S")

\* parse_inventory_date: 'DD/MM/YYYY', else None
parse_inventory_date(raw) == strptime(raw, "%d/%m/%Y")

\* try: int(text) except ValueError: 0
IntOrZero(text) == IF text.digits THEN text.n ELSE 0

\* the objects added to the session, the rows counted, and whether the loop
\* was left by an exception
NoRowsYet == [pending |-> <<>>, rows_processed |-> 0, raised |-> FALSE]

\* for row in reader: ... of upload_members_file; row.get("date_joined", "")
\* is None for a short row and None.strip() raises AttributeError
RECURSIVE MemberRows(_, _)
MemberRows(rows, acc) ==
    IF rows = <<>> THEN acc
    ELSE LET row == Head(rows) IN
         IF row.date = None THEN [acc EXCEPT !.raised = TRUE]
         ELSE IF parse_member_date(row.date) = NoDate
         THEN MemberRows(Tail(rows), acc)
         ELSE MemberRows(Tail(rows),
                 [acc EXCEPT !.pending = Append(@, [booking_count |-> IntOrZero(row.count)]),
                             !.rows_processed = @ + 1])

\* for row in reader: ... of upload_inventory_file
RECURSIVE InventoryRows(_, _)
InventoryRows(rows, acc) ==
    IF rows = <<>> THEN acc
    ELSE LET row == Head(rows) IN
         IF row.date = None THEN [acc EXCEPT !.raised = TRUE]
         ELSE IF parse_inventory_date(row.date) = NoDate
         THEN InventoryRows(Tail(rows), acc)
         ELSE InventoryRows(Tail(rows),
                 [acc EXCEPT !.pending = Append(@,
                                 [remaining_count |-> IntOrZero(row.count),
                                  expiration_date |-> parse_inventory_date(row.date)]),
                             !.rows_processed = @ + 1])

\* the upload served and its answer; members0 and inventory0 are the sizes of
\* the tables when it began, total the rows read by all uploads so far
NoUpload == [op |-> "none", file |-> <<>>, status_code |-> 0, rows_processed |-> 0,
             members0 |-> 0, inventory0 |-> 0, total |-> 0]

\* ------------------------------------------------------------------ Init
\* the items the store is set up with: the first holds a single unit and
\* expires on the first day, the others hold MaxStock units and expire on
\* the last day
create_inventory(i) ==
    [remaining_count |-> IF i = 1 THEN 1 ELSE MaxStock,
     expiration_date |-> IF i = 1 THEN 1 ELSE MaxDay]

\* create_member(booking_count=0)
create_member(m) == [booking_count |-> 0]

Init ==
    /\ members = [m \in MemberIds |-> create_member(m)]
    /\ inventory = [i \in ItemIds |-> create_inventory(i)]
    /\ bookings = <<>>
    /\ today = 1
    /\ pc = [p \in Procs |-> "idle"]
    /\ req = [p \in Procs |-> NoRequest]
    /\ loc = [p \in Procs |-> NoObjects]
    /\ resp = [p \in Procs |-> NoResponse]
    /\ stock0 = [i \in ItemIds |-> inventory[i].remaining_count]
    /\ last_booked = NoBooking
    /\ base = NoSnapshot
    /\ batch = <<>>
    /\ upload = NoUpload

\* ---------------------------------------------------- POST /book, by step
InFlightBooks == Cardinality({q \in Procs : req[q].op = "book" /\ pc[q] # "done"})

\* member = db.query(Member).filter(Member.id == member_id).first()
\* if not member: raise 404
BookBegin(p) ==
    /\ pc[p] = "idle"
    /\ Room
    /\ Delivered
    /\ Len(bookings) + InFlightBooks < MaxBookings
    /\ \E m \in RequestMemberIds, i \in RequestItemIds :
          /\ req' = [req EXCEPT ![p] = [op |-> "book", member_id |-> m,
                                        inventory_id |-> i, booking_reference |-> 0,
                                        slot |-> SlotOfNew]]
          /\ IF m \in DOMAIN members
             THEN /\ loc' = [loc EXCEPT ![p] = [NoObjects EXCEPT
                                !.booking_count = members[m].booking_count]]
                  /\ pc' = [pc EXCEPT ![p] = "book_item"]
                  /\ resp' = resp
                  /\ Record(Call("book", m, i, 0, NoResponse))
                  /\ last_booked' = last_booked
             ELSE /\ loc' = loc
                  /\ pc' = [pc EXCEPT ![p] = "done"]
                  /\ resp' = [resp EXCEPT ![p] = MemberNotFound]
                  /\ Record(Call("book", m, i, 0, MemberNotFound))
                  /\ last_booked' = NoBooking
    /\ UNCHANGED <<members, inventory, bookings, today, stock0, upload>>

\* inventory_item = db.query(Inventory).filter(Inventory.id == inventory_id).first()
\* if not inventory_item: raise 404
BookReadItem(p) ==
    /\ pc[p] = "book_item"
    /\ Delivered
    /\ LET i == req[p].inventory_id IN
       IF i \in DOMAIN inventory
       THEN /\ loc' = [loc EXCEPT ![p].remaining_count = inventory[i].remaining_count,
                                  ![p].expiration_date = inventory[i].expiration_date]
            /\ pc' = [pc EXCEPT ![p] = "book_check"]
            /\ UNCHANGED <<resp, base, batch, last_booked>>
       ELSE /\ loc' = loc
            /\ Finish(p, ItemNotFound)
    /\ UNCHANGED <<members, inventory, bookings, today, req, stock0, upload>>

\* the checks with the stock looked at before the quota
BookCheck_StockFirst(p) ==
    /\ pc[p] = "book_check"
    /\ Delivered
    /\ IF NoRemaining(loc[p].remaining_count)
       THEN Finish(p, OutOfStock)
       ELSE IF QuotaReached(ActiveBookingsCount(bookings, req[p].member_id))
       THEN Finish(p, QuotaExceeded)
       ELSE IF IsExpired(loc[p].expiration_date, today)
       THEN Finish(p, Expired)
       ELSE /\ pc' = [pc EXCEPT ![p] = "book_commit"]
            /\ UNCHANGED <<resp, base, batch, last_booked>>
    /\ UNCHANGED <<members, inventory, bookings, today, req, loc, stock0, upload>>

\* the count query and the three checks on its result and on the loaded item
BookCheck(p) ==
    /\ pc[p] = "book_check"
    /\ Delivered
    /\ IF QuotaReached(ActiveBookingsCount(bookings, req[p].member_id))
       THEN Finish(p, QuotaExceeded)
       ELSE IF NoRemaining(loc[p].remaining_count)
       THEN Finish(p, OutOfStock)
       ELSE IF IsExpired(loc[p].expiration_date, today)
       THEN Finish(p, Expired)
       ELSE /\ pc' = [pc EXCEPT ![p] = "book_commit"]
            /\ UNCHANGED <<resp, base, batch, last_booked>>
    /\ UNCHANGED <<members, inventory, bookings, today, req, loc, stock0, upload>>

\* a commit after db.add(booking) and another after the counters: the insert
\* is committed alone, the two updates follow in a transaction of their own
BookCommit_TwoCommits(p) ==
    /\ pc[p] = "book_commit"
    /\ Delivered
    /\ LET m == req[p].member_id
           i == req[p].inventory_id
           ref == generate_uuid(bookings)
       IN  IF loc[p].booking = 0
           THEN /\ bookings' = Append(bookings, Booking(m, i, ref))
                /\ req' = [req EXCEPT ![p].booking_reference = ref]
                /\ loc' = [loc EXCEPT ![p].booking = Len(bookings) + 1]
                /\ UNCHANGED <<inventory, members, pc, resp, base, batch, last_booked>>
           ELSE /\ inventory' = [inventory EXCEPT
                                ![i].remaining_count = TakenCount(loc[p].remaining_count)]
                /\ members' = [members EXCEPT
                                ![m].booking_count = IncrementedCount(loc[p].booking_count)]
                /\ pc' = [pc EXCEPT ![p] = "done"]
                /\ resp' = [resp EXCEPT ![p] = Ok(loc[p].booking)]
                /\ Close(p, Ok(loc[p].booking), req[p].booking_reference)
                /\ last_booked' = NoBooking
                /\ UNCHANGED <<bookings, req, loc>>
    /\ UNCHANGED <<today, stock0, upload>>

\* an UPDATE that lost its WHERE clause: the unit is taken from every item
BookCommit_EveryItem(p) ==
    /\ pc[p] = "book_commit"
    /\ Delivered
    /\ LET m == req[p].member_id
           i == req[p].inventory_id
           ref == generate_uuid(bookings)
       IN    /\ bookings' = Append(bookings, Booking(m, i, ref))
             /\ inventory' = [j \in DOMAIN inventory |->
                                [inventory[j] EXCEPT
                                    !.remaining_count = TakenCount(loc[p].remaining_count)]]
             /\ members' = [members EXCEPT
                                ![m].booking_count = IncrementedCount(loc[p].booking_count)]
             /\ req' = [req EXCEPT ![p].booking_reference = ref]
             /\ pc' = [pc EXCEPT ![p] = "done"]
             /\ resp' = [resp EXCEPT ![p] = Ok(Len(bookings) + 1)]
             /\ Close(p, Ok(Len(bookings) + 1), ref)
             /\ last_booked' = NoBooking
    /\ UNCHANGED <<today, loc, stock0, upload>>

\* db.add(booking); remaining_count -= 1; booking_count += 1; db.commit():
\* the insert and the two updates carry the values computed in the session
BookCommit(p) ==
    /\ pc[p] = "book_commit"
    /\ Delivered
    /\ LET m == req[p].member_id
           i == req[p].inventory_id
           ref == generate_uuid(bookings)
       IN    /\ bookings' = Append(bookings, Booking(m, i, ref))
             /\ inventory' = [inventory EXCEPT
                                ![i].remaining_count = TakenCount(loc[p].remaining_count)]
             /\ members' = [members EXCEPT
                                ![m].booking_count = IncrementedCount(loc[p].booking_count)]
             /\ req' = [req EXCEPT ![p].booking_reference = ref]
             /\ pc' = [pc EXCEPT ![p] = "done"]
             /\ resp' = [resp EXCEPT ![p] = Ok(Len(bookings) + 1)]
             /\ Close(p, Ok(Len(bookings) + 1), ref)
             /\ last_booked' = [id |-> Len(bookings) + 1,
                                booking_count |-> members[m].booking_count,
                                remaining_count |-> inventory[i].remaining_count,
                                cancelled |-> FALSE]
    /\ UNCHANGED <<today, loc, stock0, upload>>

\* -------------------------------------------------- POST /cancel, by step
\* booking = db.query(Booking).filter(booking_reference == ref).first()
\* if not booking or not booking.is_active: raise 404
CancelBegin(p) ==
    /\ pc[p] = "idle"
    /\ Room
    /\ Delivered
    /\ \E ref \in Uuids \cup {FakeRef} :
         LET k == BookingByReference(bookings, ref) IN
          /\ req' = [req EXCEPT ![p] = [op |-> "cancel", member_id |-> 0,
                                        inventory_id |-> 0, booking_reference |-> ref,
                                        slot |-> SlotOfNew]]
          /\ IF NotCancellable(bookings, k)
             THEN /\ loc' = loc
                  /\ pc' = [pc EXCEPT ![p] = "done"]
                  /\ resp' = [resp EXCEPT ![p] = BookingNotFound]
                  /\ Record(Call("cancel", 0, 0, ref, BookingNotFound))
                  /\ last_booked' = NoBooking
             ELSE /\ loc' = [loc EXCEPT ![p] = [NoObjects EXCEPT !.booking = k]]
                  /\ pc' = [pc EXCEPT ![p] = "cancel_item"]
                  /\ resp' = resp
                  /\ Record(Call("cancel", 0, 0, ref, NoResponse))
                  /\ last_booked' = last_booked
    /\ UNCHANGED <<members, inventory, bookings, today, stock0, upload>>

\* inventory_item = db.query(Inventory).filter(id == booking.inventory_id).first()
\* if inventory_item: inventory_item.remaining_count += 1
CancelReadItem(p) ==
    /\ pc[p] = "cancel_item"
    /\ Delivered
    /\ LET i == bookings[loc[p].booking].inventory_id IN
       loc' = IF i \in DOMAIN inventory
              THEN [loc EXCEPT ![p].item_dirty = TRUE,
                               ![p].remaining_count =
                                    RestoredCount(inventory[i].remaining_count)]
              ELSE loc
    /\ pc' = [pc EXCEPT ![p] = "cancel_member"]
    /\ UNCHANGED <<members, inventory, bookings, today, req, resp, stock0,
                   last_booked, base, batch, upload>>

\* member = db.query(Member).filter(id == booking.member_id).first()
\* if member and member.booking_count > 0: member.booking_count -= 1
CancelReadMember(p) ==
    /\ pc[p] = "cancel_member"
    /\ Delivered
    /\ LET m == bookings[loc[p].booking].member_id IN
       loc' = IF m \in DOMAIN members /\ AboveFloor(members[m].booking_count)
              THEN [loc EXCEPT ![p].member_dirty = TRUE,
                               ![p].booking_count =
                                    DecrementedCount(members[m].booking_count)]
              ELSE loc
    /\ pc' = [pc EXCEPT ![p] = "cancel_commit"]
    /\ UNCHANGED <<members, inventory, bookings, today, req, resp, stock0,
                   last_booked, base, batch, upload>>

\* booking.is_active = False ... db.commit(): the updates of the booking and
\* of the item and member the session assigned carry the values it set
CancelCommit(p) ==
    /\ pc[p] = "cancel_commit"
    /\ Delivered
    /\ LET k == loc[p].booking
           m == bookings[k].member_id
           i == bookings[k].inventory_id
       IN  IF \/ bookings[k].booking_reference = Gone
              \/ loc[p].item_dirty /\ i \notin DOMAIN inventory
           THEN \* a row the session updates was deleted since it was loaded
                /\ Finish(p, StaleData)
                /\ UNCHANGED <<bookings, inventory, members>>
           ELSE
           /\ bookings' = Deactivated(bookings, k)
           /\ inventory' = IF loc[p].item_dirty
                           THEN [inventory EXCEPT
                                   ![i].remaining_count = loc[p].remaining_count]
                           ELSE inventory
           /\ members' = IF loc[p].member_dirty
                         THEN [members EXCEPT
                                   ![m].booking_count = loc[p].booking_count]
                         ELSE members
           /\ pc' = [pc EXCEPT ![p] = "done"]
           /\ resp' = [resp EXCEPT ![p] = Ok(k)]
           /\ Close(p, Ok(k), req[p].booking_reference)
           /\ last_booked' = IF last_booked.id = k /\ ~last_booked.cancelled
                              THEN [last_booked EXCEPT !.cancelled = TRUE]
                              ELSE NoBooking
    /\ UNCHANGED <<today, req, loc, stock0, upload>>

\* the response is sent and the session closed (get_db: finally db.close())
Return(p) ==
    /\ pc[p] = "done"
    /\ pc' = [pc EXCEPT ![p] = "idle"]
    /\ req' = [req EXCEPT ![p] = NoRequest]
    /\ loc' = [loc EXCEPT ![p] = NoObjects]
    /\ resp' = [resp EXCEPT ![p] = NoResponse]
    /\ IF \A q \in Procs \ {p} : pc[q] = "idle"
       THEN base' = NoSnapshot /\ batch' = <<>>
       ELSE UNCHANGED <<base, batch>>
    /\ last_booked' = IF last_booked.cancelled THEN NoBooking ELSE last_booked
    /\ UNCHANGED <<members, inventory, bookings, today, stock0, upload>>

\* midnight UTC passes: datetime.utcnow().date() moves on
AdvanceDay ==
    /\ today < MaxDay
    /\ Delivered
    /\ today' = today + 1
    /\ IF Quiescent THEN UNCHANGED <<base, batch>>
       ELSE base' = NoSnapshot /\ batch' = <<>>
    /\ UNCHANGED <<members, inventory, bookings, pc, req, loc, resp, stock0,
                   last_booked, upload>>

\* --------------------------------------------------- the store's delete
\* delete(InventoryItem, i) of the entity store: the item goes and, by the
\* foreign key (ondelete CASCADE), so do its bookings, in one transaction.
\* Deletions while a booking request is in flight are left out.
delete_item(i) ==
    /\ i \in DOMAIN inventory
    /\ Delivered
    /\ \A q \in Procs : pc[q] \notin {"book_item", "book_check", "book_commit"}
    /\ inventory' = [j \in DOMAIN inventory \ {i} |-> inventory[j]]
    /\ bookings' = [k \in 1..Len(bookings) |->
                        IF bookings[k].inventory_id = i
                        THEN Deleted(bookings[k]) ELSE bookings[k]]
    /\ last_booked' = NoBooking
    /\ IF Quiescent THEN UNCHANGED <<base, batch>>
       ELSE base' = NoSnapshot /\ batch' = <<>>
    /\ UNCHANGED <<members, today, pc, req, loc, resp, stock0, upload>>

\* ------------------------------- POST /members and POST /inventory, whole
\* upload_members_file: the rows are added to the session and committed
\* together after the loop; an exception in the loop leaves the handler
\* before the commit and the request is answered 500
upload_members_file ==
    /\ upload.op = "none"
    /\ \E file \in Files :
          LET done == MemberRows(file, NoRowsYet) IN
          /\ upload.total + Len(file) <= MaxRows
          /\ members' = IF done.raised THEN members ELSE members \o done.pending
          /\ upload' = [op |-> "members", file |-> file,
                        status_code |-> IF done.raised THEN 500 ELSE HTTP_201_CREATED,
                        rows_processed |-> IF done.raised THEN 0 ELSE done.rows_processed,
                        members0 |-> Len(members), inventory0 |-> Len(inventory),
                        total |-> upload.total + Len(file)]
    /\ UNCHANGED <<inventory, bookings, today, pc, req, loc, resp, stock0,
                   last_booked, base, batch>>

\* upload_inventory_file
upload_inventory_file ==
    /\ upload.op = "none"
    /\ \E file \in Files :
          LET done == InventoryRows(file, NoRowsYet) IN
          /\ upload.total + Len(file) <= MaxRows
          /\ inventory' = IF done.raised THEN inventory ELSE inventory \o done.pending
          /\ stock0' = IF done.raised THEN stock0
                       ELSE stock0 \o [k \in 1..Len(done.pending) |->
                                            done.pending[k].remaining_count]
          /\ upload' = [op |-> "inventory", file |-> file,
                        status_code |-> IF done.raised THEN 500 ELSE HTTP_201_CREATED,
                        rows_processed |-> IF done.raised THEN 0 ELSE done.rows_processed,
                        members0 |-> Len(members), inventory0 |-> Len(inventory),
                        total |-> upload.total + Len(file)]
    /\ UNCHANGED <<members, bookings, today, pc, req, loc, resp,
                   last_booked, base, batch>>

\* the answer is sent and the session closed
UploadReturn ==
    /\ upload.op # "none"
    /\ upload' = [NoUpload EXCEPT !.total = upload.total]
    /\ UNCHANGED <<members, inventory, bookings, today, pc, req, loc, resp, stock0,
                   last_booked, base, batch>>

\* ------------------------------------------------------ specifications
\* requests served concurrently, one session each
Next ==
    \/ \E p \in Procs : BookBegin(p)
    \/ \E p \in Procs : BookReadItem(p)
    \/ \E p \in Procs : BookCheck(p)
    \/ \E p \in Procs : BookCommit(p)
    \/ \E p \in Procs : CancelBegin(p)
    \/ \E p \in Procs : CancelReadItem(p)
    \/ \E p \in Procs : CancelReadMember(p)
    \/ \E p \in Procs : CancelCommit(p)
    \/ \E p \in Procs : Return(p)
    \/ AdvanceDay

Spec == Init /\ [][Next]_vars

\* one call after another, all served by the first handler: a call begins
\* only when the one before has been answered
SeqNext ==
    \/ BookBegin(1)
    \/ BookReadItem(1)
    \/ BookCheck(1)
    \/ BookCommit(1)
    \/ CancelBegin(1)
    \/ CancelReadItem(1)
    \/ CancelReadMember(1)
    \/ CancelCommit(1)
    \/ Return(1)
    \/ AdvanceDay

SeqSpec == Init /\ [][SeqNext]_vars

\* CSV files uploaded one after another into the store
IngestNext ==
    \/ upload_members_file
    \/ upload_inventory_file
    \/ UploadReturn

IngestSpec == Init /\ [][IngestNext]_vars

\* calls served one after another while items are deleted from the store,
\* between the calls or between the queries of a cancellation
DeleteNext ==
    \/ BookBegin(1)
    \/ BookReadItem(1)
    \/ BookCheck(1)
    \/ BookCommit(1)
    \/ CancelBegin(1)
    \/ CancelReadItem(1)
    \/ CancelReadMember(1)
    \/ CancelCommit(1)
    \/ Return(1)
    \/ AdvanceDay
    \/ \E i \in ItemIds : delete_item(i)

DeleteSpec == Init /\ [][DeleteNext]_vars

TypeOK ==
    /\ MemberIds \subseteq DOMAIN members
    /\ DOMAIN inventory \subseteq 1..(NItems + MaxRows)
    /\ Len(bookings) <= MaxBookings
    /\ today \in Days

\* ------------------------------------------------------------ properties
\* handler p has answered a call that ran with no other call in flight, from
\* the store recorded in base
Answered(p, op) ==
    /\ pc[p] = "done"
    /\ req[p].op = op
    /\ base.ok
    /\ Len(batch) = 1

Succeeded(p, op) == Answered(p, op) /\ resp[p].status_code = HTTP_200_OK

References(bk) == {bk[k].booking_reference : k \in 1..Len(bk)}

\* C1: after any sequence of create_booking and cancel_booking calls every
\* member's booking_count equals the number of its active bookings
C1_BookingCountIsActiveCount ==
    \A m \in DOMAIN members :
        members[m].booking_count = ActiveBookingsCount(bookings, m)

\* a booking was cancelled and the member holds another, active one
C1_Witness ==
    \E p \in Procs, k, j \in 1..Len(bookings) :
        /\ Succeeded(p, "cancel")
        /\ resp[p].booking = k
        /\ bookings[j].is_active
        /\ bookings[j].member_id = bookings[k].member_id
        /\ members[bookings[k].member_id].booking_count = 1

\* C2: remaining_count plus the active bookings on an item is the stock the
\* item was created with, after any sequence of calls
C2_StockConserved ==
    \A i \in DOMAIN inventory :
        inventory[i].remaining_count + ActiveBookingsOnItem(bookings, i) = stock0[i]

\* an item booked twice with one of the two bookings cancelled again
C2_Witness ==
    \E p \in Procs, k, j \in 1..Len(bookings) :
        /\ Succeeded(p, "cancel")
        /\ resp[p].booking = k
        /\ bookings[j].is_active
        /\ bookings[j].inventory_id = bookings[k].inventory_id
        /\ inventory[bookings[k].inventory_id].remaining_count
              = stock0[bookings[k].inventory_id] - 1

\* C3: a create_booking (on an existing item) for a member with 2 active
\* bookings fails with QuotaExceeded and leaves the store as it was, and no
\* member ever has more than 2 active bookings
C3_QuotaKept ==
    /\ \A m \in DOMAIN members :
          ActiveBookingsCount(bookings, m) <= MaxActiveBookings
    /\ \A p \in Procs :
          ( /\ Answered(p, "book")
            /\ req[p].member_id \in DOMAIN base.members
            /\ req[p].inventory_id \in DOMAIN base.inventory
            /\ ActiveBookingsCount(base.bookings, req[p].member_id)
                  = MaxActiveBookings )
          => /\ resp[p] = QuotaExceeded
             /\ members = base.members
             /\ inventory = base.inventory
             /\ bookings = base.bookings

\* a third booking was attempted on an item in stock and not expired
C3_Witness ==
    \E p \in Procs :
        /\ Answered(p, "book")
        /\ req[p].member_id \in DOMAIN base.members
        /\ req[p].inventory_id \in DOMAIN base.inventory
        /\ ActiveBookingsCount(base.bookings, req[p].member_id) = MaxActiveBookings
        /\ base.inventory[req[p].inventory_id].remaining_count >= 1
        /\ ~IsExpired(base.inventory[req[p].inventory_id].expiration_date, base.today)
        /\ resp[p] = QuotaExceeded

\* C4: remaining_count is never negative, whatever the interleaving of the
\* calls served concurrently
C4_RemainingNonNegative ==
    \A i \in DOMAIN inventory : inventory[i].remaining_count >= 0

\* two overlapping bookings of one item have both been answered, and the
\* item is left with nothing
C4_Witness ==
    /\ base.ok
    /\ Len(batch) = 2
    /\ \A n \in 1..2 : batch[n].op = "book" /\ batch[n].resp.status_code = HTTP_200_OK
    /\ batch[1].inventory_id = batch[2].inventory_id
    /\ inventory[batch[1].inventory_id].remaining_count = 0

\* every call of the running batch has been answered
BatchAnswered ==
    /\ Quiescent
    /\ base.ok
    /\ \A n \in 1..Len(batch) : batch[n].resp # NoResponse

\* two create_booking calls that overlapped have both been answered
TwoBookingsAnswered ==
    /\ BatchAnswered
    /\ Len(batch) = 2
    /\ \A n \in 1..2 : /\ batch[n].op = "book"
                       /\ batch[n].member_id \in DOMAIN base.members
                       /\ batch[n].inventory_id \in DOMAIN base.inventory
                       /\ ~IsExpired(base.inventory[batch[n].inventory_id].expiration_date,
                                     base.today)

\* C5: of two concurrent create_booking calls, by members under quota, on the
\* same unexpired item with remaining_count 1, exactly one succeeds and the
\* other receives OutOfStock
C5_OneUnitOneBooking ==
    ( /\ TwoBookingsAnswered
      /\ batch[1].inventory_id = batch[2].inventory_id
      /\ base.inventory[batch[1].inventory_id].remaining_count = 1
      /\ \A n \in 1..2 :
            ActiveBookingsCount(base.bookings, batch[n].member_id) < MaxActiveBookings
      /\ \/ batch[1].member_id # batch[2].member_id
         \/ ActiveBookingsCount(base.bookings, batch[1].member_id) = 0 )
    => \E n \in 1..2 : /\ batch[n].resp.status_code = HTTP_200_OK
                       /\ batch[3 - n].resp = OutOfStock

\* C6: of two concurrent create_booking calls for one member who holds exactly
\* 1 active booking, on items in stock, at most one succeeds and the member
\* does not end with 3 active bookings
C6_QuotaUnderRace ==
    ( /\ TwoBookingsAnswered
      /\ batch[1].member_id = batch[2].member_id
      /\ ActiveBookingsCount(base.bookings, batch[1].member_id) = 1
      /\ \A n \in 1..2 : base.inventory[batch[n].inventory_id].remaining_count >= 1 )
    => /\ ~(\A n \in 1..2 : batch[n].resp.status_code = HTTP_200_OK)
       /\ ActiveBookingsCount(bookings, batch[1].member_id) <= MaxActiveBookings

\* C7: the store that concurrent create_booking and cancel_booking calls leave
\* (remaining_count, booking_count, active bookings) is the one the same calls
\* leave when served one after another in some order
C7_Serializable ==
    BatchAnswered =>
        \E f \in Orders(Len(batch)) :
            LET st == ServeAll(base, [n \in 1..Len(batch) |-> batch[f[n]]])
            IN  /\ st.members = members
                /\ st.inventory = inventory
                /\ ActiveBag(st.bookings) = ActiveBag(bookings)

\* C8: a successful create_booking(member, item) inserts exactly one Booking,
\* active, of that member and item, under a reference no booking carried, adds
\* 1 to the member's booking_count, takes 1 from the item's remaining_count and
\* returns that Booking
C8_BookingMade ==
    \A p \in Procs :
        Succeeded(p, "book") =>
            LET m == req[p].member_id
                i == req[p].inventory_id
                k == resp[p].booking
            IN  /\ Len(bookings) = Len(base.bookings) + 1
                /\ k = Len(bookings)
                /\ SubSeq(bookings, 1, Len(base.bookings)) = base.bookings
                /\ bookings[k].is_active
                /\ bookings[k].member_id = m
                /\ bookings[k].inventory_id = i
                /\ bookings[k].booking_reference \notin References(base.bookings)
                /\ bookings[k].booking_reference = req[p].booking_reference
                /\ members[m].booking_count = base.members[m].booking_count + 1
                /\ inventory[i].remaining_count = base.inventory[i].remaining_count - 1

\* a booking made while the store already held bookings
C8_Witness ==
    \E p \in Procs :
        /\ Succeeded(p, "book")
        /\ Len(base.bookings) >= 1
        /\ base.members[req[p].member_id].booking_count = 1

\* C9: a successful cancel_booking(reference) makes that Booking inactive, adds
\* 1 to its item's remaining_count and takes 1 from its member's booking_count;
\* cancelling a booking right after it was made restores both counters
C9_BookingCancelled ==
    \A p \in Procs :
        Succeeded(p, "cancel") =>
            LET k == resp[p].booking
                m == bookings[k].member_id
                i == bookings[k].inventory_id
            IN  /\ bookings[k].booking_reference = req[p].booking_reference
                /\ base.bookings[k].is_active
                /\ ~bookings[k].is_active
                /\ bookings = [base.bookings EXCEPT ![k].is_active = FALSE]
                /\ inventory[i].remaining_count = base.inventory[i].remaining_count + 1
                /\ members[m].booking_count = base.members[m].booking_count - 1
                /\ (last_booked.cancelled /\ last_booked.id = k) =>
                      /\ members[m].booking_count = last_booked.booking_count
                      /\ inventory[i].remaining_count = last_booked.remaining_count

\* the booking cancelled is the one the call before had made
C9_Witness ==
    \E p \in Procs :
        /\ Succeeded(p, "cancel")
        /\ last_booked.cancelled
        /\ last_booked.id = resp[p].booking
        /\ last_booked.booking_count = 1

\* C10: a second cancel_booking of a reference already cancelled returns
\* NotFound and leaves remaining_count and booking_count as the first left them
C10_SecondCancelNotFound ==
    \A p \in Procs :
        ( /\ Answered(p, "cancel")
          /\ BookingByReference(base.bookings, req[p].booking_reference) # 0
          /\ ~base.bookings[BookingByReference(base.bookings,
                                req[p].booking_reference)].is_active )
        => /\ resp[p] = BookingNotFound
           /\ members = base.members
           /\ inventory = base.inventory
           /\ bookings = base.bookings

\* the reference of a cancelled booking was cancelled again
C10_Witness ==
    \E p \in Procs :
        /\ Answered(p, "cancel")
        /\ BookingByReference(bookings, req[p].booking_reference) # 0
        /\ ~base.bookings[BookingByReference(base.bookings,
                                req[p].booking_reference)].is_active
        /\ resp[p].status_code = HTTP_404_NOT_FOUND

\* the store is as the call found it
StoreUnchanged ==
    /\ members = base.members
    /\ inventory = base.inventory
    /\ bookings = base.bookings

\* C11: cancel_booking of a reference no Booking carries and cancel_booking of
\* the reference of an inactive Booking both return the one NotFound error
\* (404, same detail) and change no record
C11_NotFoundAlike ==
    \A p \in Procs :
        ( /\ Answered(p, "cancel")
          /\ \A k \in 1..Len(base.bookings) :
                base.bookings[k].booking_reference = req[p].booking_reference
                    => ~base.bookings[k].is_active )
        => /\ resp[p].status_code = 404
           /\ resp[p].detail = "Active booking with this reference not found."
           /\ resp[p] = BookingNotFound
           /\ StoreUnchanged

\* a reference no booking carries was cancelled while the store holds an
\* inactive booking
C11_Witness ==
    \E p \in Procs, j \in 1..Len(bookings) :
        /\ Answered(p, "cancel")
        /\ req[p].booking_reference \notin References(base.bookings)
        /\ ~base.bookings[j].is_active
        /\ resp[p] = BookingNotFound

\* C12: create_booking by an existing member under quota on an existing item
\* with remaining_count 0 returns OutOfStock (400) and changes nothing
C12_OutOfStockWritesNothing ==
    \A p \in Procs :
        ( /\ Answered(p, "book")
          /\ req[p].member_id \in DOMAIN base.members
          /\ req[p].inventory_id \in DOMAIN base.inventory
          /\ ActiveBookingsCount(base.bookings, req[p].member_id) < 2
          /\ base.inventory[req[p].inventory_id].remaining_count = 0 )
        => /\ resp[p] = OutOfStock
           /\ resp[p].status_code = 400
           /\ StoreUnchanged

\* a member holding one booking asked for an item that has no unit left and
\* is not expired
C12_Witness ==
    \E p \in Procs :
        /\ Answered(p, "book")
        /\ req[p].member_id \in DOMAIN base.members
        /\ req[p].inventory_id \in DOMAIN base.inventory
        /\ ActiveBookingsCount(base.bookings, req[p].member_id) = 1
        /\ base.inventory[req[p].inventory_id].remaining_count = 0
        /\ base.inventory[req[p].inventory_id].expiration_date >= base.today
        /\ resp[p] = OutOfStock

\* member and item exist, the member is under quota and the item in stock
OnlyExpiryOpen(p) ==
    /\ Answered(p, "book")
    /\ req[p].member_id \in DOMAIN base.members
    /\ req[p].inventory_id \in DOMAIN base.inventory
    /\ ActiveBookingsCount(base.bookings, req[p].member_id) < 2
    /\ base.inventory[req[p].inventory_id].remaining_count >= 1

\* C13: with the other preconditions satisfied, create_booking succeeds on an
\* item whose expiration_date is the current date and fails with Expired,
\* writing nothing, on an item whose expiration_date is an earlier date
C13_ExpiryBoundary ==
    \A p \in Procs :
        OnlyExpiryOpen(p) =>
            LET expiration_date == base.inventory[req[p].inventory_id].expiration_date
            IN  /\ expiration_date = base.today => resp[p].status_code = 200
                /\ expiration_date < base.today =>
                        resp[p] = Expired /\ StoreUnchanged

\* an item booked on its expiration date (the booking was cancelled since) is
\* refused the day after
C13_Witness ==
    \E p \in Procs, j \in 1..Len(bookings) :
        /\ OnlyExpiryOpen(p)
        /\ base.inventory[req[p].inventory_id].expiration_date = base.today - 1
        /\ bookings[j].inventory_id = req[p].inventory_id
        /\ resp[p] = Expired

\* C14: create_booking answers with the error of the first precondition that
\* fails, in the order member exists (404), item exists (404), quota (400),
\* stock (400), expiry (400), and with 200 only when all five hold
C14_FirstFailureDecides ==
    \A p \in Procs :
        Answered(p, "book") =>
            LET m == req[p].member_id
                i == req[p].inventory_id
            IN  IF m \notin DOMAIN base.members
                THEN resp[p] = MemberNotFound /\ resp[p].status_code = 404
                ELSE IF i \notin DOMAIN base.inventory
                THEN resp[p] = ItemNotFound /\ resp[p].status_code = 404
                ELSE IF ~(ActiveBookingsCount(base.bookings, m) < 2)
                THEN resp[p] = QuotaExceeded /\ resp[p].status_code = 400
                ELSE IF ~(base.inventory[i].remaining_count >= 1)
                THEN resp[p] = OutOfStock /\ resp[p].status_code = 400
                ELSE IF base.inventory[i].expiration_date < base.today
                THEN resp[p] = Expired /\ resp[p].status_code = 400
                ELSE resp[p].status_code = 200

\* quota, stock and expiry fail together and the quota decides
C14_Witness ==
    \E p \in Procs :
        /\ Answered(p, "book")
        /\ req[p].member_id \in DOMAIN base.members
        /\ req[p].inventory_id \in DOMAIN base.inventory
        /\ ActiveBookingsCount(base.bookings, req[p].member_id) = 2
        /\ base.inventory[req[p].inventory_id].remaining_count = 0
        /\ base.inventory[req[p].inventory_id].expiration_date < base.today
        /\ resp[p] = QuotaExceeded

\* C15: no member's stored booking_count exceeds 2 in any reachable state
C15_CounterWithinQuota ==
    \A m \in DOMAIN members : members[m].booking_count <= 2

\* C16: is_active only changes from true to false, in no step of
\* create_booking or cancel_booking does an inactive Booking become active,
\* and no step removes a Booking
C16_OnlyDeactivated ==
    [][ /\ Len(bookings') >= Len(bookings)
        /\ \A k \in 1..Len(bookings) :
              /\ bookings'[k].member_id = bookings[k].member_id
              /\ bookings'[k].inventory_id = bookings[k].inventory_id
              /\ bookings'[k].is_active => bookings[k].is_active ]_vars

\* a member booked again the item of a booking it had cancelled, and the
\* cancelled booking is still there, inactive
C16_Witness ==
    \E j, k \in 1..Len(bookings) :
        /\ j < k
        /\ ~bookings[j].is_active
        /\ bookings[k].is_active
        /\ bookings[k].member_id = bookings[j].member_id
        /\ bookings[k].inventory_id = bookings[j].inventory_id

\* C17: no two Bookings carry the same reference, and no step changes the
\* reference of a Booking
C17_ReferencesUniqueForGood ==
    /\ [](\A j, k \in 1..Len(bookings) :
            bookings[j].booking_reference = bookings[k].booking_reference => j = k)
    /\ [][\A k \in 1..Len(bookings) :
            /\ k <= Len(bookings')
            /\ bookings'[k].booking_reference = bookings[k].booking_reference]_vars

\* the table is full, one of its bookings cancelled, and the references are
\* as many as the bookings
C17_Witness ==
    /\ Len(bookings) = MaxBookings
    /\ \E k \in 1..Len(bookings) : ~bookings[k].is_active
    /\ Cardinality(References(bookings)) = MaxBookings

\* the commit of create_booking by handler p: the insert and both updates
WholeBooking(p) ==
    /\ pc[p] = "book_commit"
    /\ Len(bookings') = Len(bookings) + 1
    /\ SubSeq(bookings', 1, Len(bookings)) = bookings
    /\ bookings'[Len(bookings')].is_active
    /\ bookings'[Len(bookings')].member_id = req[p].member_id
    /\ bookings'[Len(bookings')].inventory_id = req[p].inventory_id
    /\ inventory' = [inventory EXCEPT ![req[p].inventory_id].remaining_count =
                                            loc[p].remaining_count - 1]
    /\ members' = [members EXCEPT ![req[p].member_id].booking_count =
                                            loc[p].booking_count + 1]

\* the commit of cancel_booking by handler p: the booking and the counters the
\* session assigned
WholeCancel(p) ==
    /\ pc[p] = "cancel_commit"
    /\ LET k == loc[p].booking IN
       /\ bookings' = [bookings EXCEPT ![k].is_active = FALSE]
       /\ inventory' = IF loc[p].item_dirty
                       THEN [inventory EXCEPT ![bookings[k].inventory_id].remaining_count =
                                                    loc[p].remaining_count]
                       ELSE inventory
       /\ members' = IF loc[p].member_dirty
                     THEN [members EXCEPT ![bookings[k].member_id].booking_count =
                                                    loc[p].booking_count]
                     ELSE members

\* C18: the writes of one create_booking or cancel_booking reach the store the
\* other sessions read in a single step: the store never holds a part of them
C18_WritesVisibleAtOnce ==
    [][ <<members, inventory, bookings>>' # <<members, inventory, bookings>>
            => \E p \in Procs : WholeBooking(p) \/ WholeCancel(p) ]_vars

\* a booking was committed while another request of the same member had read
\* the member and not yet counted its bookings
C18_Witness ==
    \E p, q \in Procs :
        /\ p # q
        /\ pc[p] = "done"
        /\ req[p].op = "book"
        /\ resp[p].status_code = 200
        /\ pc[q] \in {"book_item", "book_check"}
        /\ req[q].member_id = req[p].member_id
        /\ loc[q].booking_count = members[req[p].member_id].booking_count - 1

\* C20: a successful create_booking(member, item) leaves every other Member,
\* every other InventoryItem, every Booking there was and the item's
\* expiration_date as they were
C20_BookingFrame ==
    \A p \in Procs :
        Succeeded(p, "book") =>
            /\ DOMAIN members = DOMAIN base.members
            /\ DOMAIN inventory = DOMAIN base.inventory
            /\ \A m \in DOMAIN members \ {req[p].member_id} : members[m] = base.members[m]
            /\ \A i \in DOMAIN inventory \ {req[p].inventory_id} :
                    inventory[i] = base.inventory[i]
            /\ inventory[req[p].inventory_id].expiration_date
                    = base.inventory[req[p].inventory_id].expiration_date
            /\ Len(bookings) = Len(base.bookings) + 1
            /\ \A k \in 1..Len(base.bookings) : bookings[k] = base.bookings[k]

\* a booking made while another member holds a booking on another item
C20_Witness ==
    \E p \in Procs, k \in 1..Len(base.bookings) :
        /\ Succeeded(p, "book")
        /\ base.bookings[k].is_active
        /\ base.bookings[k].member_id # req[p].member_id
        /\ base.bookings[k].inventory_id # req[p].inventory_id

\* the dates each upload accepts
Parseable(op, raw) ==
    IF op = "members"
    THEN raw.format \in {"%Y-%m-%d %H:%M:%S", "%Y-%m-%dT%H:%M:%S"}
    ELSE raw.format = "%d/%m/%Y"

\* the rows of the uploaded file whose date can be parsed, in their order
RowsWithDate ==
    SelectSeq(upload.file, LAMBDA row : Parseable(upload.op, row.date))

\* C19: an upload never fails because of rows whose date cannot be parsed:
\* they are skipped, the rows with a parseable date are persisted, and the
\* count reported is the number of rows persisted
C19_MalformedRowsSkipped ==
    upload.op # "none" =>
        /\ upload.status_code = 201
        /\ upload.rows_processed = Len(RowsWithDate)
        /\ Len(members) - upload.members0
              = (IF upload.op = "members" THEN Len(RowsWithDate) ELSE 0)
        /\ Len(inventory) - upload.inventory0
              = (IF upload.op = "inventory" THEN Len(RowsWithDate) ELSE 0)

\* the same for the files in which every row holds its date field
C19_PresentDatesOnly ==
    (upload.op # "none" /\ \A n \in 1..Len(upload.file) : upload.file[n].date # None)
        => /\ upload.status_code = 201
           /\ upload.rows_processed = Len(RowsWithDate)
           /\ Len(members) - upload.members0
                 = (IF upload.op = "members" THEN Len(RowsWithDate) ELSE 0)
           /\ Len(inventory) - upload.inventory0
                 = (IF upload.op = "inventory" THEN Len(RowsWithDate) ELSE 0)

\* C21: every member stored by an upload has booking_count equal to the number
\* of its active bookings (none, for a member just loaded), whatever the
\* booking_count field of its row holds
C21_IngestedCountIsActiveCount ==
    upload.op = "members" =>
        \A m \in (upload.members0 + 1)..Len(members) :
            /\ members[m].booking_count
                  = Cardinality({k \in 1..Len(bookings) :
                                    bookings[k].member_id = m /\ bookings[k].is_active})
            /\ members[m].booking_count = 0

\* C22: every item stored by an upload has remaining_count >= 0, whatever the
\* remaining_count field of its row holds
C22_IngestedStockNonNegative ==
    upload.op = "inventory" =>
        \A i \in (upload.inventory0 + 1)..Len(inventory) :
            inventory[i].remaining_count >= 0

\* two cancel_booking calls for the reference of one active booking overlapped
\* and have both been answered
TwoCancelsAnswered ==
    /\ BatchAnswered
    /\ Len(batch) = 2
    /\ \A n \in 1..2 : batch[n].op = "cancel"
    /\ batch[1].booking_reference = batch[2].booking_reference
    /\ \E k \in 1..Len(base.bookings) :
          /\ base.bookings[k].booking_reference = batch[1].booking_reference
          /\ base.bookings[k].is_active

\* C23: of two concurrent cancel_booking calls for the same active Booking
\* exactly one succeeds and the other receives NotFound, and the item's
\* remaining_count ends 1 higher and the member's booking_count 1 lower
C23_OneCancelWins ==
    TwoCancelsAnswered =>
        LET k == BookingByReference(base.bookings, batch[1].booking_reference)
            m == base.bookings[k].member_id
            i == base.bookings[k].inventory_id
        IN  /\ \E n \in 1..2 : /\ batch[n].resp.status_code = 200
                                /\ batch[3 - n].resp = BookingNotFound
            /\ inventory[i].remaining_count = base.inventory[i].remaining_count + 1
            /\ members[m].booking_count = base.members[m].booking_count - 1

\* C24: cancel_booking never takes booking_count below 0: the cancellation of
\* an active Booking of a member whose booking_count is 0 succeeds,
\* deactivates the Booking, gives the unit back and leaves booking_count as
\* it was
C24_CountClampedAtZero ==
    /\ \A m \in DOMAIN members : members[m].booking_count >= 0
    /\ \A p \in Procs :
          LET k == BookingByReference(base.bookings, req[p].booking_reference) IN
          ( /\ Answered(p, "cancel")
            /\ k # 0
            /\ base.bookings[k].is_active
            /\ base.members[base.bookings[k].member_id].booking_count <= 0 )
          => /\ resp[p].status_code = 200
             /\ resp[p].booking = k
             /\ bookings = [base.bookings EXCEPT ![k].is_active = FALSE]
             /\ inventory = [base.inventory EXCEPT
                                ![base.bookings[k].inventory_id].remaining_count = @ + 1]
             /\ members = base.members

\* a member whose counter had drifted to 0 cancelled the booking it still held
C24_Witness ==
    \E p \in Procs :
        LET k == BookingByReference(base.bookings, req[p].booking_reference) IN
        /\ Answered(p, "cancel")
        /\ k # 0
        /\ base.bookings[k].is_active
        /\ base.members[base.bookings[k].member_id].booking_count = 0
        /\ resp[p].status_code = 200
        /\ members[base.bookings[k].member_id].booking_count = 0

\* the bookings of member m in the table bk, active or of any status
BookingsOf(bk, m, active_only) ==
    {k \in 1..Len(bk) : bk[k].member_id = m /\ (active_only => bk[k].is_active)}

\* C26: only active Bookings count toward the quota: a member left with one
\* active Booking after a cancellation books an item in stock and not expired
\* with success, however many inactive Bookings it has
C26_InactiveNotCounted ==
    \A p \in Procs :
        ( /\ Answered(p, "book")
          /\ req[p].member_id \in DOMAIN base.members
          /\ req[p].inventory_id \in DOMAIN base.inventory
          /\ Cardinality(BookingsOf(base.bookings, req[p].member_id, TRUE)) = 1
          /\ Cardinality(BookingsOf(base.bookings, req[p].member_id, FALSE)) >= 2
          /\ base.inventory[req[p].inventory_id].remaining_count >= 1
          /\ base.inventory[req[p].inventory_id].expiration_date >= base.today )
        => /\ resp[p].status_code = 200
           /\ Cardinality(BookingsOf(bookings, req[p].member_id, TRUE)) = 2

\* the member's third booking was made, one of the two before it cancelled
C26_Witness ==
    \E p \in Procs :
        /\ Succeeded(p, "book")
        /\ Cardinality(BookingsOf(base.bookings, req[p].member_id, TRUE)) = 1
        /\ Cardinality(BookingsOf(base.bookings, req[p].member_id, FALSE)) = 2
        /\ Cardinality(BookingsOf(bookings, req[p].member_id, FALSE)) = 3

\* handler p has answered a cancel_booking that found its Booking active and,
\* looking for the item of the Booking, found none
ItemWasMissing(p) ==
    /\ pc[p] = "done"
    /\ req[p].op = "cancel"
    /\ loc[p].booking # 0
    /\ ~loc[p].item_dirty

\* C25: cancel_booking of an active Booking whose InventoryItem is no longer
\* in the store succeeds: the Booking becomes inactive, the member's
\* booking_count is decremented and no remaining_count is incremented
C25_MissingItemTolerated ==
    \A p \in Procs :
        ItemWasMissing(p) =>
            LET k == loc[p].booking IN
            /\ resp[p].status_code = 200
            /\ bookings[k].booking_reference = req[p].booking_reference
            /\ ~bookings[k].is_active
            /\ loc[p].member_dirty
            /\ members[bookings[k].member_id].booking_count = loc[p].booking_count

====
